---- MODULE Spec2Model ----
(***************************************************************************)
(* A model of src/virgilio.py: the Virgilio class, a read-only query layer  *)
(* over the 34 chant files Canto_1.txt .. Canto_34.txt of a base directory, *)
(* and its one side effect, the word_counts.json report of count_words.     *)
(*                                                                          *)
(* A Python str is a sequence of one-character strings.  A Python value     *)
(* whose type the code inspects (isinstance) is a record tagged with its    *)
(* type; the elements of a list of verses, always str, are left untagged.   *)
(***************************************************************************)
EXTENDS Integers, Sequences, FiniteSets, TLC

VARIABLES
    directory,  \* self.__directory, the base directory of the chants
    files,      \* the chant files of the base directory, by chant number
    report,     \* the file word_counts.json of the working directory
    pc,         \* "idle", or "returned" when a call has just ended
    call,       \* the method last called and its arguments
    ret,        \* the outcome of that call: a returned value or an exception
    opened,     \* the paths that call passed to open(), in order
    logged,     \* the chants whose failure that call printed, in order
    divisor     \* the right operand of the division that call executed, if any

vars == <<directory, files, report, pc, call, ret, opened, logged, divisor>>

----------------------------------------------------------------------------
(* Bounds of the model *)

MaxFileLen == 3
MaxWords == 2

(* Program constants *)

FirstCanto == 1
LastCanto == 34
TercetSize == 3

Cantos == FirstCanto..LastCanto

----------------------------------------------------------------------------
(* Python values *)

PyInt(i) == [t |-> "int", i |-> i]
PyStr(s) == [t |-> "str", s |-> s]
PyList(l) == [t |-> "list", l |-> l]
PyDict(d) == [t |-> "dict", d |-> d]
PyFloat(n, d) == [t |-> "float", num |-> n, den |-> d]
PyNone == [t |-> "NoneType"]

Return(v) == [kind |-> "return", val |-> v]
Raise(e) == [kind |-> "raise", exc |-> e]

get_readable_type(of) == of.t

(* "x = e; Body(x)": e is evaluated once and Body sees its value *)
With(e, Body(_)) == CHOOSE y \in {Body(x) : x \in {e}} : TRUE

----------------------------------------------------------------------------
(* str and list primitives of the Python runtime the class relies on *)

Char == {"a", "b", " ", "\n"}
Whitespace == {" ", "\n"}

RECURSIVE StringsUpTo(_)
StringsUpTo(k) ==
    IF k = 0 THEN {<<>>}
    ELSE LET shorter == StringsUpTo(k - 1)
         IN  shorter \cup {Append(s, c) : s \in {x \in shorter : Len(x) = k - 1}, c \in Char}

(* s[i:] *)
Tail_from(s, i) == SubSeq(s, i, Len(s))

(* str.lstrip(), str.rstrip(), str.strip() *)
RECURSIVE lstrip(_)
lstrip(s) == IF s # <<>> /\ Head(s) \in Whitespace THEN lstrip(Tail(s)) ELSE s

RECURSIVE rstrip(_)
rstrip(s) ==
    IF s # <<>> /\ s[Len(s)] \in Whitespace THEN rstrip(SubSeq(s, 1, Len(s) - 1)) ELSE s

strip(s) == rstrip(lstrip(s))

(* "".join(lines) *)
RECURSIVE join(_)
join(lines) == IF lines = <<>> THEN <<>> ELSE Head(lines) \o join(Tail(lines))

StartsWith(s, sub) == Len(sub) <= Len(s) /\ SubSeq(s, 1, Len(sub)) = sub

(* sub in s *)
Contains(s, sub) == \E i \in 1..(Len(s) + 1) : StartsWith(Tail_from(s, i), sub)

(* s.count(sub): non-overlapping occurrences, scanned left to right; *)
(* the empty string occurs len(s) + 1 times.                          *)
RECURSIVE CountFrom(_, _)
CountFrom(s, sub) ==
    IF Len(s) < Len(sub) THEN 0
    ELSE IF StartsWith(s, sub) THEN 1 + CountFrom(Tail_from(s, Len(sub) + 1), sub)
    ELSE CountFrom(Tail(s), sub)

str_count(s, sub) == IF sub = <<>> THEN Len(s) + 1 ELSE CountFrom(s, sub)

(* file.readlines(): the text cut after every line terminator; the last *)
(* line keeps no terminator when the text does not end with one.        *)
RECURSIVE readlines(_)
readlines(data) ==
    IF data = <<>> THEN <<>>
    ELSE IF \E k \in 1..Len(data) : data[k] = "\n"
         THEN LET k == CHOOSE j \in 1..Len(data) :
                          data[j] = "\n" /\ \A i \in 1..(j - 1) : data[i] # "\n"
              IN  <<SubSeq(data, 1, k)>> \o readlines(Tail_from(data, k + 1))
         ELSE <<data>>

(* [f(x) for x in lines] *)
StripAll(lines) == IF lines = <<>> THEN <<>> ELSE [i \in 1..Len(lines) |-> strip(lines[i])]

(* lines[:k], k possibly negative *)
SliceTo(lines, k) ==
    LET stop == IF k < 0 THEN (IF Len(lines) + k < 0 THEN 0 ELSE Len(lines) + k)
                ELSE IF k > Len(lines) THEN Len(lines) ELSE k
    IN  SubSeq(lines, 1, stop)

----------------------------------------------------------------------------
(* Storage.  files[n] is the file Canto_<n>.txt of the base directory:      *)
(* absent ("missing"), present but not decodable as UTF-8 ("binary"), or a  *)
(* text.  report is word_counts.json in the working directory: absent, a    *)
(* complete JSON document (its members in order), or the truncated          *)
(* remainder of a write that failed ("partial").                            *)

Missing == [kind |-> "missing"]
Binary == [kind |-> "binary"]
Text(data) == [kind |-> "text", data |-> data]

NoReport == [kind |-> "absent"]
PartialReport == [kind |-> "partial"]
JsonReport(members) == [kind |-> "json", members |-> members]

output_json_name == <<"word_counts.json">>

(* json.dump of a dict: one member per key, in the dict's order *)
dump(d) ==
    JsonReport(IF d = <<>> THEN <<>> ELSE [i \in 1..Len(d) |-> <<d[i].key, d[i].value>>])

(* open(path, 'r') of a path of the base directory: the chant file of   *)
(* that number, if there is one                                          *)
file_at(fs, i) == IF i \in DOMAIN fs THEN fs[i] ELSE Missing

(* A Python dict: its items in insertion order, keys unique.  d[k] = v *)
(* replaces the value of a key already present and keeps its place.    *)
DictSet(d, k, v) ==
    IF \E i \in 1..Len(d) : d[i].key = k
    THEN [i \in 1..Len(d) |-> IF d[i].key = k THEN [key |-> k, value |-> v] ELSE d[i]]
    ELSE Append(d, [key |-> k, value |-> v])

----------------------------------------------------------------------------
(* class Virgilio.  Every method is an operator that yields the outcome of  *)
(* the call (out: a returned value or a raised exception) and the paths it  *)
(* passed to open(), in order (opened).                                     *)

IsInt(v) == v.t = "int"
IsStr(v) == v.t = "str"
IsList(v) == v.t = "list"

InRange_no_upper(i) == FirstCanto <= i

InRange(i) == FirstCanto <= i /\ i <= LastCanto

file_path_of(dir, i) == <<dir, "/Canto_", ToString(i), ".txt">>

read_failure_as_empty(file_path) == PyList(<<>>)

(* "except Exception: return f"error while opening {file_path}"" *)
read_failure(file_path) == PyStr(<<"error while opening ">> \o file_path)

read_canto_lines(fs, dir, canto_number, strip_lines, num_lines) ==
    IF ~IsInt(canto_number) THEN [out |-> Raise("TypeError"), opened |-> <<>>]
    ELSE IF ~InRange(canto_number.i)
    THEN [out |-> Raise("CantoNotFoundError"), opened |-> <<>>]
    ELSE LET file_path == file_path_of(dir, canto_number.i)
             chant     == file_at(fs, canto_number.i)
         IN  IF chant.kind # "text"
             THEN [out |-> Return(read_failure(file_path)), opened |-> <<file_path>>]
             ELSE With(readlines(chant.data), LAMBDA raw :
                  With(IF strip_lines THEN StripAll(raw) ELSE raw, LAMBDA stripped :
                      [out |-> Return(PyList(IF num_lines = PyNone THEN stripped
                                             ELSE SliceTo(stripped, num_lines.i))),
                       opened |-> <<file_path>>]))

(* "if isinstance(lines, str): raise Exception(...)", after a call r of *)
(* read_canto_lines that returned                                       *)
ReadFailed(r) == r.out.kind = "return" /\ IsStr(r.out.val)

count_verses(fs, dir, canto_number) ==
    With(read_canto_lines(fs, dir, canto_number, FALSE, PyNone), LAMBDA r :
        IF r.out.kind = "raise" THEN r
        ELSE IF ReadFailed(r) THEN [out |-> Raise("Exception"), opened |-> r.opened]
        ELSE [out |-> Return(PyInt(Len(r.out.val.l))), opened |-> r.opened])

count_tercets(fs, dir, canto_number) ==
    With(count_verses(fs, dir, canto_number), LAMBDA c :
        IF c.out.kind = "raise" THEN c
        ELSE [out |-> Return(PyInt(c.out.val.i \div TercetSize)), opened |-> c.opened])

count_word(fs, dir, canto_number, word) ==
    IF ~IsStr(word) THEN [out |-> Raise("TypeError"), opened |-> <<>>]
    ELSE With(read_canto_lines(fs, dir, canto_number, FALSE, PyNone), LAMBDA r :
             IF r.out.kind = "raise" THEN r
             ELSE IF ReadFailed(r) THEN [out |-> Raise("Exception"), opened |-> r.opened]
             ELSE LET single_line_chant == join(r.out.val.l)
                  IN  [out |-> Return(PyInt(str_count(single_line_chant, word.s))),
                       opened |-> r.opened])

(* "for line in lines: if word in line: return line", then "return None" *)
RECURSIVE first_with_word(_, _)
first_with_word(lines, w) ==
    IF lines = <<>> THEN PyNone
    ELSE IF Contains(Head(lines), w) THEN PyStr(Head(lines))
    ELSE first_with_word(Tail(lines), w)

get_verse_with_word(fs, dir, canto_number, word) ==
    IF ~IsStr(word) THEN [out |-> Raise("TypeError"), opened |-> <<>>]
    ELSE With(read_canto_lines(fs, dir, canto_number, TRUE, PyNone), LAMBDA r :
             IF r.out.kind = "raise" THEN r
             ELSE IF ReadFailed(r) THEN [out |-> Raise("Exception"), opened |-> r.opened]
             ELSE [out |-> Return(first_with_word(r.out.val.l, word.s)),
                   opened |-> r.opened])

(* [line for line in lines if word in line] *)
RECURSIVE lines_with_word(_, _)
lines_with_word(lines, w) ==
    IF lines = <<>> THEN <<>>
    ELSE (IF Contains(Head(lines), w) THEN <<Head(lines)>> ELSE <<>>)
         \o lines_with_word(Tail(lines), w)

keep_empty_list(l) == PyList(l)

(* x or None, for a list x *)
or_None(l) == IF l = <<>> THEN PyNone ELSE PyList(l)

get_verses_with_word(fs, dir, canto_number, word) ==
    IF ~IsStr(word) THEN [out |-> Raise("TypeError"), opened |-> <<>>]
    ELSE With(read_canto_lines(fs, dir, canto_number, TRUE, PyNone), LAMBDA r :
             IF r.out.kind = "raise" THEN r
             ELSE IF ReadFailed(r) THEN [out |-> Raise("Exception"), opened |-> r.opened]
             ELSE [out |-> Return(or_None(lines_with_word(r.out.val.l, word.s))),
                   opened |-> r.opened])

keep_last_longest(best, line) == IF Len(line) >= Len(best) THEN line ELSE best

(* one step of max(..., key=len): a later element replaces the best so *)
(* far only when its key is strictly greater                           *)
keep_longest(best, line) == IF Len(line) > Len(best) THEN line ELSE best

RECURSIVE max_from(_, _)
max_from(best, rest) ==
    IF rest = <<>> THEN best ELSE max_from(keep_longest(best, Head(rest)), Tail(rest))

(* max(lines, key=len, default=None) *)
max_by_len(lines) ==
    IF lines = <<>> THEN PyNone ELSE PyStr(max_from(Head(lines), Tail(lines)))

get_longest_verse(fs, dir, canto_number) ==
    With(read_canto_lines(fs, dir, canto_number, TRUE, PyNone), LAMBDA r :
        IF r.out.kind = "raise" THEN r
        ELSE IF ReadFailed(r) THEN [out |-> Raise("Exception"), opened |-> r.opened]
        ELSE [out |-> Return(max_by_len(r.out.val.l)), opened |-> r.opened])

(* {word: full_text.count(word) for word in words} *)
RECURSIVE count_each(_, _, _)
count_each(d, full_text, words) ==
    IF words = <<>> THEN d
    ELSE count_each(DictSet(d, Head(words).s, str_count(full_text, Head(words).s)),
                    full_text, Tail(words))

(* the "try: with open(output_json_name, "w") ...: dump(...)" of count_words. *)
(* io is what the storage does to the write: "ok", "open_fails" (open()       *)
(* raises, the file is left as it was) or "dump_fails" (the file was          *)
(* truncated by open() and the write or the close raises).                    *)
write_report_appending(rep, word_counts, io) ==
    IF io = "open_fails" THEN [out |-> Raise("Exception"), report |-> rep]
    ELSE IF io = "dump_fails" THEN [out |-> Raise("Exception"), report |-> PartialReport]
    ELSE [out |-> Return(PyDict(word_counts)),
          report |-> IF rep.kind = "json"
                     THEN JsonReport(rep.members \o dump(word_counts).members)
                     ELSE dump(word_counts)]

write_report(rep, word_counts, io) ==
    IF io = "open_fails" THEN [out |-> Raise("Exception"), report |-> rep]
    ELSE IF io = "dump_fails" THEN [out |-> Raise("Exception"), report |-> PartialReport]
    ELSE [out |-> Return(PyDict(word_counts)), report |-> dump(word_counts)]

count_words_writing_first(fs, rep, dir, canto_number, words, io) ==
    IF ~IsList(words) \/ ~(\A i \in 1..Len(words.l) : IsStr(words.l[i]))
    THEN [out |-> Raise("TypeError"), opened |-> <<>>, report |-> rep]
    ELSE With(read_canto_lines(fs, dir, canto_number, TRUE, PyNone), LAMBDA r :
             IF r.out.kind = "raise"
             THEN [out |-> r.out, opened |-> r.opened, report |-> dump(<<>>)]
             ELSE IF ReadFailed(r)
             THEN [out |-> Raise("Exception"), opened |-> r.opened, report |-> dump(<<>>)]
             ELSE With(write_report(rep, count_each(<<>>, join(r.out.val.l), words.l), io),
                       LAMBDA w : [out |-> w.out,
                                   opened |-> Append(r.opened, output_json_name),
                                   report |-> w.report]))

count_words(fs, rep, dir, canto_number, words, io) ==
    IF ~IsList(words) \/ ~(\A i \in 1..Len(words.l) : IsStr(words.l[i]))
    THEN [out |-> Raise("TypeError"), opened |-> <<>>, report |-> rep]
    ELSE With(read_canto_lines(fs, dir, canto_number, TRUE, PyNone), LAMBDA r :
             IF r.out.kind = "raise"
             THEN [out |-> r.out, opened |-> r.opened, report |-> rep]
             ELSE IF ReadFailed(r)
             THEN [out |-> Raise("Exception"), opened |-> r.opened, report |-> rep]
             ELSE LET full_text   == join(r.out.val.l)
                      word_counts == count_each(<<>>, full_text, words.l)
                  IN  With(write_report(rep, word_counts, io), LAMBDA w :
                          [out |-> w.out,
                           opened |-> Append(r.opened, output_json_name),
                           report |-> w.report]))

(* The corpus-wide methods loop over range(1, 35).  The state of a loop is  *)
(* the method's local value (acc), the paths opened so far and the chants   *)
(* whose failure was printed (logged); c is the outcome of the call the     *)
(* loop body makes for the chant canto_number.                              *)

(* "except Exception as e: print(...)" *)
skip_and_log(st, canto_number, c) ==
    [st EXCEPT !.opened = @ \o c.opened, !.logged = Append(@, canto_number)]

longest_update_on_tie(longest_chant, canto_number, num_verses) ==
    IF num_verses >= longest_chant.canto_len
    THEN [canto_number |-> PyInt(canto_number), canto_len |-> num_verses]
    ELSE longest_chant

(* "if num_verses > longest_chant["canto_len"]: ..." *)
longest_update(longest_chant, canto_number, num_verses) ==
    IF num_verses > longest_chant.canto_len
    THEN [canto_number |-> PyInt(canto_number), canto_len |-> num_verses]
    ELSE longest_chant

longest_canto_body(st, canto_number, c) ==
    IF c.out.kind = "raise" THEN skip_and_log(st, canto_number, c)
    ELSE [st EXCEPT !.opened = @ \o c.opened,
                    !.acc = longest_update(@, canto_number, c.out.val.i)]

RECURSIVE longest_canto_loop(_, _, _, _)
longest_canto_loop(fs, dir, canto_number, st) ==
    IF canto_number > LastCanto THEN st
    ELSE With(longest_canto_body(st, canto_number,
                                 count_verses(fs, dir, PyInt(canto_number))),
              LAMBDA nx : longest_canto_loop(fs, dir, canto_number + 1, nx))

get_longest_canto(fs, dir) ==
    With(longest_canto_loop(fs, dir, FirstCanto,
             [acc |-> [canto_number |-> PyNone, canto_len |-> 0],
              opened |-> <<>>, logged |-> <<>>]),
         LAMBDA st : [out |-> Return(PyDict(st.acc)), opened |-> st.opened,
                      logged |-> st.logged])

hell_verses_body(st, canto_number, r) ==
    IF r.out.kind = "raise" \/ ReadFailed(r) THEN skip_and_log(st, canto_number, r)
    ELSE [st EXCEPT !.opened = @ \o r.opened, !.acc = @ \o r.out.val.l]

RECURSIVE hell_verses_loop(_, _, _, _)
hell_verses_loop(fs, dir, canto_number, st) ==
    IF canto_number > LastCanto THEN st
    ELSE With(hell_verses_body(st, canto_number,
                  read_canto_lines(fs, dir, PyInt(canto_number), TRUE, PyNone)),
              LAMBDA nx : hell_verses_loop(fs, dir, canto_number + 1, nx))

get_hell_verses(fs, dir) ==
    With(hell_verses_loop(fs, dir, FirstCanto,
             [acc |-> <<>>, opened |-> <<>>, logged |-> <<>>]),
         LAMBDA st : [out |-> Return(PyList(st.acc)), opened |-> st.opened,
                      logged |-> st.logged])

count_hell_body_reset(st, canto_number, c) ==
    IF c.out.kind = "raise"
    THEN [skip_and_log(st, canto_number, c) EXCEPT !.acc = 0]
    ELSE [st EXCEPT !.opened = @ \o c.opened, !.acc = @ + c.out.val.i]

count_hell_body(st, canto_number, c) ==
    IF c.out.kind = "raise" THEN skip_and_log(st, canto_number, c)
    ELSE [st EXCEPT !.opened = @ \o c.opened, !.acc = @ + c.out.val.i]

RECURSIVE count_hell_loop(_, _, _, _)
count_hell_loop(fs, dir, canto_number, st) ==
    IF canto_number > LastCanto THEN st
    ELSE With(count_hell_body(st, canto_number,
                              count_verses(fs, dir, PyInt(canto_number))),
              LAMBDA nx : count_hell_loop(fs, dir, canto_number + 1, nx))

count_hell_verses(fs, dir) ==
    With(count_hell_loop(fs, dir, FirstCanto,
             [acc |-> 0, opened |-> <<>>, logged |-> <<>>]),
         LAMBDA st : [out |-> Return(PyInt(st.acc)), opened |-> st.opened,
                      logged |-> st.logged])

(* sum(len(verse) for verse in verses) *)
RECURSIVE sum_len(_)
sum_len(verses) == IF verses = <<>> THEN 0 ELSE Len(Head(verses)) + sum_len(Tail(verses))

(* a / b on int operands: a float, here the pair of the operands, or *)
(* ZeroDivisionError                                                 *)
true_div(a, b) == IF b = 0 THEN Raise("ZeroDivisionError") ELSE Return(PyFloat(a, b))

mean_len_body(st, canto_number, r) ==
    IF r.out.kind = "raise" \/ ReadFailed(r) THEN skip_and_log(st, canto_number, r)
    ELSE [st EXCEPT !.opened = @ \o r.opened, !.acc = @ + sum_len(r.out.val.l)]

RECURSIVE mean_len_loop(_, _, _, _)
mean_len_loop(fs, dir, canto_number, st) ==
    IF canto_number > LastCanto THEN st
    ELSE With(mean_len_body(st, canto_number,
                  read_canto_lines(fs, dir, PyInt(canto_number), TRUE, PyNone)),
              LAMBDA nx : mean_len_loop(fs, dir, canto_number + 1, nx))

never_early(total_verses) == FALSE

(* "if total_verses == 0: return 0.0" *)
no_verses(total_verses) == total_verses = 0

(* divisor is the right operand of the division the call executed, None *)
(* when it executed none                                                *)
get_hell_verse_mean_len(fs, dir) ==
    With(count_hell_verses(fs, dir), LAMBDA t :
        LET total_verses == t.out.val.i
        IN  IF no_verses(total_verses)
            THEN [out |-> Return(PyFloat(0, 1)), opened |-> t.opened,
                  logged |-> t.logged, divisor |-> PyNone]
            ELSE With(mean_len_loop(fs, dir, FirstCanto,
                          [acc |-> 0, opened |-> t.opened, logged |-> t.logged]),
                      LAMBDA st : [out |-> true_div(st.acc, total_verses),
                                   opened |-> st.opened, logged |-> st.logged,
                                   divisor |-> PyInt(total_verses)]))

----------------------------------------------------------------------------
(* Arguments of the calls *)

CantoArgs == {PyInt(0), PyInt(1), PyInt(34), PyInt(35), PyStr(<<"1">>)}

WordArgs == {PyStr(<<>>), PyStr(<<"a">>), PyStr(<<"a", "b">>), PyStr(<<"\n">>), PyInt(1)}

NumLinesArgs == {PyNone, PyInt(1), PyInt(-1)}

ListWords == {PyStr(<<"a", "b">>), PyStr(<<"\n">>)}

RECURSIVE ListsUpTo(_)
ListsUpTo(k) ==
    IF k = 0 THEN {<<>>}
    ELSE LET shorter == ListsUpTo(k - 1)
         IN  shorter \cup {Append(l, w) : l \in {x \in shorter : Len(x) = k - 1}, w \in ListWords}

WordsArgs ==
    {PyList(l) : l \in ListsUpTo(MaxWords)}
        \cup {PyNone, PyStr(<<"a">>), PyList(<<PyStr(<<"a">>), PyInt(1)>>)}

WriteOutcomes == {"ok", "open_fails", "dump_fails"}

(* Contents of the chant files *)

ChantFiles == {Missing, Binary} \cup {Text(d) : d \in StringsUpTo(MaxFileLen)}

CorpusFiles ==
    {Missing, Text(<<>>), Text(<<"a", "\n">>), Text(<<"a", "b", "\n", " ", "b">>)}

ProbeCantos == {1, 2, 17, 33, 34}

PriorReports == {NoReport, JsonReport(<<<<<<"b">>, 7>>>>)}

----------------------------------------------------------------------------
(* The state machine: a caller that calls one method at a time *)

NoCall == [op |-> "none"]
NoRet == [kind |-> "none"]

Idle ==
    /\ pc = "idle"
    /\ call = NoCall
    /\ ret = NoRet
    /\ opened = <<>>
    /\ logged = <<>>
    /\ divisor = PyNone

(* Virgilio(directory) was constructed on an existing directory.  One chant, *)
(* the first or the last, holds any short text or is unreadable; the others  *)
(* are missing.                                                              *)
Init ==
    /\ directory = "chants"
    /\ \E p \in {FirstCanto, LastCanto}, f \in ChantFiles :
           files = [n \in Cantos |-> IF n = p THEN f ELSE Missing]
    /\ report \in PriorReports
    /\ Idle

(* Two of the probe chants hold any of the corpus files and all the others *)
(* share one.                                                              *)
InitCorpus ==
    /\ directory = "chants"
    /\ \E i \in ProbeCantos, j \in ProbeCantos, fi \in CorpusFiles, fj \in CorpusFiles,
          bg \in CorpusFiles :
           /\ i < j
           /\ files = [n \in Cantos |-> IF n = i THEN fi ELSE IF n = j THEN fj ELSE bg]
    /\ report \in PriorReports
    /\ Idle

(* the end of a call that does not write to the storage *)
Ends(c, r) ==
    /\ pc' = "returned"
    /\ call' = c
    /\ ret' = r.out
    /\ opened' = r.opened
    /\ UNCHANGED <<directory, files, report>>

Call_read_canto_lines ==
    /\ pc = "idle"
    /\ \E n \in CantoArgs, strip_lines \in BOOLEAN, num_lines \in NumLinesArgs :
       \E r \in {read_canto_lines(files, directory, n, strip_lines, num_lines)} :
           Ends([op |-> "read_canto_lines", canto_number |-> n,
                 strip_lines |-> strip_lines, num_lines |-> num_lines], r)
    /\ UNCHANGED <<logged, divisor>>

Call_count_verses ==
    /\ pc = "idle"
    /\ \E n \in CantoArgs :
       \E r \in {count_verses(files, directory, n)} :
           Ends([op |-> "count_verses", canto_number |-> n], r)
    /\ UNCHANGED <<logged, divisor>>

Call_count_tercets ==
    /\ pc = "idle"
    /\ \E n \in CantoArgs :
       \E r \in {count_tercets(files, directory, n)} :
           Ends([op |-> "count_tercets", canto_number |-> n], r)
    /\ UNCHANGED <<logged, divisor>>

Call_count_word ==
    /\ pc = "idle"
    /\ \E n \in CantoArgs, w \in WordArgs :
       \E r \in {count_word(files, directory, n, w)} :
           Ends([op |-> "count_word", canto_number |-> n, word |-> w], r)
    /\ UNCHANGED <<logged, divisor>>

Call_get_verse_with_word ==
    /\ pc = "idle"
    /\ \E n \in CantoArgs, w \in WordArgs :
       \E r \in {get_verse_with_word(files, directory, n, w)} :
           Ends([op |-> "get_verse_with_word", canto_number |-> n, word |-> w], r)
    /\ UNCHANGED <<logged, divisor>>

Call_get_verses_with_word ==
    /\ pc = "idle"
    /\ \E n \in CantoArgs, w \in WordArgs :
       \E r \in {get_verses_with_word(files, directory, n, w)} :
           Ends([op |-> "get_verses_with_word", canto_number |-> n, word |-> w], r)
    /\ UNCHANGED <<logged, divisor>>

Call_get_longest_verse ==
    /\ pc = "idle"
    /\ \E n \in CantoArgs :
       \E r \in {get_longest_verse(files, directory, n)} :
           Ends([op |-> "get_longest_verse", canto_number |-> n], r)
    /\ UNCHANGED <<logged, divisor>>

(* call.io is what the storage did to the write of the report, "none" *)
(* when the call did not come to write it                             *)
Call_count_words ==
    /\ pc = "idle"
    /\ \E n \in CantoArgs, ws \in WordsArgs, io \in WriteOutcomes :
       \E r \in {count_words(files, report, directory, n, ws, io)} :
           /\ pc' = "returned"
           /\ call' = [op |-> "count_words", canto_number |-> n, words |-> ws,
                       io |-> IF \E k \in 1..Len(r.opened) : r.opened[k] = output_json_name
                              THEN io ELSE "none"]
           /\ ret' = r.out
           /\ opened' = r.opened
           /\ report' = r.report
    /\ UNCHANGED <<directory, files, logged, divisor>>

Call_get_longest_canto ==
    /\ pc = "idle"
    /\ \E r \in {get_longest_canto(files, directory)} :
           Ends([op |-> "get_longest_canto"], r) /\ logged' = r.logged
    /\ UNCHANGED divisor

Call_get_hell_verses ==
    /\ pc = "idle"
    /\ \E r \in {get_hell_verses(files, directory)} :
           Ends([op |-> "get_hell_verses"], r) /\ logged' = r.logged
    /\ UNCHANGED divisor

Call_count_hell_verses ==
    /\ pc = "idle"
    /\ \E r \in {count_hell_verses(files, directory)} :
           Ends([op |-> "count_hell_verses"], r) /\ logged' = r.logged
    /\ UNCHANGED divisor

Call_get_hell_verse_mean_len ==
    /\ pc = "idle"
    /\ \E r \in {get_hell_verse_mean_len(files, directory)} :
           /\ Ends([op |-> "get_hell_verse_mean_len"], r)
           /\ logged' = r.logged
           /\ divisor' = r.divisor

(* the caller takes the outcome and is ready for its next call *)
Continue ==
    /\ pc = "returned"
    /\ pc' = "idle"
    /\ call' = NoCall
    /\ ret' = NoRet
    /\ opened' = <<>>
    /\ logged' = <<>>
    /\ divisor' = PyNone
    /\ UNCHANGED <<directory, files, report>>

NextCorpus ==
    \/ Call_get_longest_canto
    \/ Call_get_hell_verses
    \/ Call_count_hell_verses
    \/ Call_get_hell_verse_mean_len
    \/ Continue

Next ==
    \/ Call_read_canto_lines
    \/ Call_count_verses
    \/ Call_count_tercets
    \/ Call_count_word
    \/ Call_get_verse_with_word
    \/ Call_get_verses_with_word
    \/ Call_get_longest_verse
    \/ Call_count_words
    \/ Call_get_longest_canto
    \/ Call_get_hell_verses
    \/ Call_count_hell_verses
    \/ Call_get_hell_verse_mean_len
    \/ Continue

Spec == Init /\ [][Next]_vars

SpecCorpus == InitCorpus /\ [][NextCorpus]_vars

----------------------------------------------------------------------------
(* Vocabulary of the properties *)

SingleChantOps ==
    {"read_canto_lines", "count_verses", "count_tercets", "count_word",
     "get_verse_with_word", "get_verses_with_word", "get_longest_verse", "count_words"}

RaisingOnReadFailure == SingleChantOps \ {"read_canto_lines"}

WordOps == {"count_word", "get_verse_with_word", "get_verses_with_word"}

Returned(op) == pc = "returned" /\ call.op = op

(* the call passed an integer of 1..34 as the chant number *)
ValidCanto == call.canto_number.t = "int" /\ call.canto_number.i \in Cantos

(* the word or word list passed has the type the method expects *)
WordsWellTyped ==
    /\ call.op \in WordOps => call.word.t = "str"
    /\ call.op = "count_words" =>
           /\ call.words.t = "list"
           /\ \A i \in 1..Len(call.words.l) : call.words.l[i].t = "str"

Readable(n) == files[n].kind = "text"

(* what a JSON parser reads back from the report: a mapping from key to *)
(* value (of a repeated key the last value), or nothing for a file that  *)
(* is absent or not a complete document.                                  *)
Keys(members) == {members[i][1] : i \in 1..Len(members)}

LastIndex(members, k) ==
    CHOOSE i \in 1..Len(members) :
        members[i][1] = k /\ \A j \in (i + 1)..Len(members) : members[j][1] # k

load(rep) ==
    IF rep.kind # "json" THEN [parsed |-> FALSE]
    ELSE [parsed |-> TRUE,
          map |-> [k \in Keys(rep.members) |-> rep.members[LastIndex(rep.members, k)][2]]]

(* the number of lines of a text: its line terminators, and one more for *)
(* a last line without terminator                                        *)
NumLines(data) ==
    Cardinality({k \in 1..Len(data) : data[k] = "\n"})
        + (IF data # <<>> /\ data[Len(data)] # "\n" THEN 1 ELSE 0)

VerseCount(n) == NumLines(files[n].data)

(* w occurs in v as a substring *)
IsSubstring(w, v) ==
    \E i \in 0..Len(v), j \in 0..Len(v) : i <= j /\ SubSeq(v, i + 1, j) = w

(* the stripped verses of chant n, as read_canto_lines(n, strip_lines=True) *)
(* returns them                                                             *)
StrippedVerses(n) == read_canto_lines(files, directory, PyInt(n), TRUE, PyNone).out.val.l

(* the k-th smallest element of a set of numbers *)
Kth(S, k) == CHOOSE i \in S : Cardinality({j \in S : j <= i}) = k

RECURSIVE SumOver(_, _)
SumOver(S, f) ==
    IF S = {} THEN 0
    ELSE LET n == CHOOSE x \in S : TRUE IN f[n] + SumOver(S \ {n}, f)

----------------------------------------------------------------------------
(* the outcome of a single-chant call whose chant number is not an integer *)
(* of 1..34: an error, and no call of open()                               *)
C1_Rejected ==
    (pc = "returned" /\ call.op \in SingleChantOps /\ ~ValidCanto) =>
        /\ ret.kind = "raise"
        /\ ret.exc = IF call.canto_number.t # "int" \/ ~WordsWellTyped
                     THEN "TypeError" ELSE "CantoNotFoundError"
        /\ opened = <<>>

(* C1: a single-chant operation called with a chant number that is not an   *)
(* integer of 1..34 ends in an error - TypeError for a non-integer or a     *)
(* wrongly typed word or word list, CantoNotFoundError otherwise - without  *)
(* any call of open(), and leaves the chant files and the report as they    *)
(* were.                                                                    *)
C1_InvalidCantoFailsBeforeStorage ==
    /\ []C1_Rejected
    /\ [][(pc' = "returned" /\ call'.op \in SingleChantOps /\ ~ValidCanto')
              => (report' = report /\ files' = files)]_vars

C1_Witness ==
    /\ Returned("count_words")
    /\ call.canto_number = PyInt(35)
    /\ WordsWellTyped
    /\ ret = Raise("CantoNotFoundError")
    /\ report.kind = "json"

(* C2: the mapping count_words(N, ws) returns for a readable chant N gives  *)
(* every word w of ws the count count_word(N, w) returns, the number of     *)
(* non-overlapping occurrences of w in the concatenation of the unstripped  *)
(* verses.                                                                  *)
C2_CountWordsAgreesWithCountWord ==
    (Returned("count_words") /\ ret.kind = "return") =>
        \A i \in 1..Len(call.words.l) :
            LET w == call.words.l[i]
                single == count_word(files, directory, call.canto_number, w)
            IN  \E k \in 1..Len(ret.val.d) :
                    /\ ret.val.d[k].key = w.s
                    /\ ret.val.d[k].value = single.out.val.i

(* on a missing or unreadable file read_canto_lines returns a value that *)
(* is no list and every other single-chant operation raises              *)
C3_ReadFailureIsNotEmpty ==
    (pc = "returned" /\ call.op \in SingleChantOps /\ ValidCanto
         /\ ~Readable(call.canto_number.i)) =>
        /\ call.op = "read_canto_lines" => (ret.kind = "return" /\ ret.val.t # "list")
        /\ call.op \in RaisingOnReadFailure => ret.kind = "raise"

(* on a file of zero lines read_canto_lines returns the empty list and *)
(* count_verses returns 0                                              *)
C3_EmptyChantIsRead ==
    (pc = "returned" /\ call.op \in SingleChantOps /\ ValidCanto /\ WordsWellTyped
         /\ files[call.canto_number.i] = Text(<<>>)) =>
        /\ call.op = "read_canto_lines" => ret = Return(PyList(<<>>))
        /\ call.op = "count_verses" => ret = Return(PyInt(0))

(* C3, as claimed: for a valid chant number, a missing or unreadable file   *)
(* makes read_canto_lines return a value that is no list and every other    *)
(* single-chant operation raise; a file of zero lines makes                 *)
(* read_canto_lines return the empty list, count_verses return 0, and no    *)
(* single-chant operation raise.                                            *)
C3_Original ==
    /\ C3_ReadFailureIsNotEmpty
    /\ C3_EmptyChantIsRead
    /\ (pc = "returned" /\ call.op \in SingleChantOps /\ ValidCanto /\ WordsWellTyped
            /\ files[call.canto_number.i] = Text(<<>>)) => ret.kind = "return"

(* C3, amended: as claimed, except that on a file of zero lines count_words *)
(* raises when the report cannot be written, and only then.                 *)
C3_Amended ==
    /\ C3_ReadFailureIsNotEmpty
    /\ C3_EmptyChantIsRead
    /\ (pc = "returned" /\ call.op \in SingleChantOps /\ ValidCanto /\ WordsWellTyped
            /\ files[call.canto_number.i] = Text(<<>>)) =>
           (ret.kind = "raise"
                <=> (call.op = "count_words" /\ call.io \in {"open_fails", "dump_fails"}))

C3_Witness ==
    /\ Returned("count_verses")
    /\ ValidCanto
    /\ files[call.canto_number.i] = Text(<<>>)
    /\ \E n \in Cantos : files[n] = Missing
    /\ ret = Return(PyInt(0))

----------------------------------------------------------------------------
ReadableCantos == {n \in Cantos : Readable(n)}

(* result names the lowest-numbered readable chant of greatest verse count *)
(* and that count                                                          *)
IsLongestReadable(result) ==
    \E n \in ReadableCantos :
        /\ result.canto_number = PyInt(n)
        /\ result.canto_len = VerseCount(n)
        /\ \A m \in ReadableCantos :
               /\ VerseCount(m) <= VerseCount(n)
               /\ VerseCount(m) = VerseCount(n) => n <= m

----------------------------------------------------------------------------
C6_LongestVerse ==
    (Returned("get_longest_verse") /\ ValidCanto /\ Readable(call.canto_number.i)) =>
        LET V == StrippedVerses(call.canto_number.i)
        IN  /\ ret.kind = "return"
            /\ ret.val = PyNone <=> V = <<>>
            /\ V # <<>> =>
                   \E i \in 1..Len(V) :
                       /\ ret.val = PyStr(V[i])
                       /\ \A j \in 1..Len(V) : Len(V[j]) <= Len(V[i])
                       /\ \A j \in 1..(i - 1) : Len(V[j]) < Len(V[i])

C6_Witness ==
    /\ Returned("get_longest_verse")
    /\ ValidCanto
    /\ files[call.canto_number.i] = Text(<<"a", "\n", "b">>)
    /\ ret = Return(PyStr(<<"a">>))

----------------------------------------------------------------------------
(* the outcome of count_verses(n) for every chant n *)
CountOf == [n \in Cantos |-> count_verses(files, directory, PyInt(n)).out]

----------------------------------------------------------------------------
(* C9: after a call of count_words that returns, the report read back is    *)
(* the mapping returned, with one key for every distinct word of the list   *)
(* and no other, whatever the report held before; a call whose write of the *)
(* report fails raises.                                                     *)
C9_ReportIsReturnedMapping ==
    Returned("count_words") =>
        /\ ret.kind = "return" =>
               LET d == ret.val.d
                   doc == load(report)
               IN  /\ doc.parsed
                   /\ DOMAIN doc.map = {call.words.l[i].s : i \in 1..Len(call.words.l)}
                   /\ \A i \in 1..Len(d), j \in 1..Len(d) : d[i].key = d[j].key => i = j
                   /\ {d[i].key : i \in 1..Len(d)} = DOMAIN doc.map
                   /\ \A i \in 1..Len(d) : doc.map[d[i].key] = d[i].value
        /\ call.io \in {"open_fails", "dump_fails"} => ret.kind = "raise"

C9_Witness ==
    /\ Returned("count_words")
    /\ ret.kind = "return"
    /\ call.words = PyList(<<PyStr(<<"a", "b">>), PyStr(<<"a", "b">>)>>)
    /\ report = JsonReport(<<<<<<"a", "b">>, 1>>>>)

(* C10: no step changes the chant files or the base directory, and a step   *)
(* that changes the report is a call of count_words with a well-typed word  *)
(* list and a valid chant number whose chant was read.                      *)
C10_Frame ==
    [][/\ files' = files
       /\ directory' = directory
       /\ report' # report =>
              /\ call'.op = "count_words"
              /\ WordsWellTyped'
              /\ ValidCanto'
              /\ Readable(call'.canto_number.i)]_vars

C10_Witness ==
    /\ Returned("count_words")
    /\ WordsWellTyped
    /\ ValidCanto
    /\ ~Readable(call.canto_number.i)
    /\ ret = Raise("Exception")
    /\ report.kind = "json"

====
